---- MODULE Spec2Model ----
(***************************************************************************)
(* Beam-ACO for the TSPTW (Devoir2): the probabilistic beam search of      *)
(* utils/beam_search.py and the trial driver of solver_advanced.py.        *)
(*                                                                         *)
(* Floats are modelled exactly: a value is a record [k, n, d] where        *)
(* k = "num" is the rational n/d (d > 0, lowest terms), k = "nan" is NaN   *)
(* and k = "inf" is an infinity of sign n.  Pheromone values are integers  *)
(* in thousandths, q and determinism_rate are integers in tenths.  None is *)
(* the empty sequence.  cf_log and op_log record, per iteration of the     *)
(* trial, the convergence factor read and what was done to the pheromone;  *)
(* ib_log records the score of the iteration-best tour of each iteration   *)
(* of the trial, run_ib_log those of every iteration since solve began.    *)
(* viol holds the locals of a call of get_number_of_violations.            *)
(***************************************************************************)
EXTENDS Integers, Sequences, FiniteSets, TLC

VARIABLES tsptw, pheromone, determinism_rate, mu_k_bw, lambda, attrs,
          tree, pc, solution,
          best_so_far_solution, restart_best_solution, iteration_best_solution,
          best_soltion, bs_update, restart, nb_iter_done, trial_nb, cf_log, op_log,
          ib_log, run_ib_log, viol

vars == <<tsptw, pheromone, determinism_rate, mu_k_bw, lambda, attrs,
          tree, pc, solution,
          best_so_far_solution, restart_best_solution, iteration_best_solution,
          best_soltion, bs_update, restart, nb_iter_done, trial_nb, cf_log, op_log,
          ib_log, run_ib_log, viol>>

beamVars == <<lambda, attrs, tree, solution>>

driverVars == <<best_so_far_solution, restart_best_solution, iteration_best_solution,
                best_soltion, bs_update, restart, nb_iter_done, trial_nb, cf_log, op_log,
                ib_log, run_ib_log, viol>>

(***************************************************************************)
(* Bounds of the model.                                                    *)
(***************************************************************************)
\* largest number of nodes of an instance (depot included)
MaxN == 3
\* edge weights are drawn from 1..MaxW
MaxW == 2
\* time-window bounds are drawn from 0..MaxT
MaxT == 3
\* largest child budget int(beam_width * mu) tried by the beam specification
MaxMu == 3
\* iterations of the main loop (100 in solve; bounded here)
nb_of_iter == 4
\* iterations explored on an instance of MaxN nodes before the time limit
\* of the trial passes
MaxLargeIter == 3

(***************************************************************************)
(* Exact arithmetic standing for the floats of the program.                *)
(***************************************************************************)
Abs(x) == IF x < 0 THEN -x ELSE x

Min2(a, b) == IF a <= b THEN a ELSE b

Max2(a, b) == IF a >= b THEN a ELSE b

SetMax(S) == CHOOSE x \in S : \A y \in S : y <= x

SetMin(S) == CHOOSE x \in S : \A y \in S : x <= y

RECURSIVE GCD(_, _)
GCD(a, b) == IF b = 0 THEN a ELSE GCD(b, a % b)

LCM(a, b) == (a \div GCD(a, b)) * b

NaN == [k |-> "nan", n |-> 0, d |-> 1]

Inf(sign) == [k |-> "inf", n |-> sign, d |-> 1]

\* the rational a/b, b # 0, in lowest terms with a positive denominator
Frac(a, b) ==
    LET g == GCD(Abs(a), Abs(b))
        s == IF b < 0 THEN -1 ELSE 1
    IN  [k |-> "num", n |-> (s * a) \div g, d |-> (s * b) \div g]

\* float division a / b of two finite numbers given as integers: IEEE gives
\* nan for 0/0 and a signed infinity for x/0 (numpy warns, it does not raise)
FDiv(a, b) ==
    IF b # 0 THEN Frac(a, b)
    ELSE IF a = 0 THEN NaN
    ELSE Inf(IF a > 0 THEN 1 ELSE -1)

IsNaN(x) == x.k = "nan"

IsNum(x) == x.k = "num"

\* x < y as floats compare: every comparison with NaN is false
FLt(x, y) ==
    IF IsNaN(x) \/ IsNaN(y) THEN FALSE
    ELSE IF x.k = "inf" THEN x.n < 0 /\ ~(y.k = "inf" /\ y.n < 0)
    ELSE IF y.k = "inf" THEN y.n > 0
    ELSE LET m == LCM(x.d, y.d)
         IN  x.n * (m \div x.d) < y.n * (m \div y.d)

FEq(x, y) == ~IsNaN(x) /\ ~IsNaN(y) /\ x = y

FZero == Frac(0, 1)

FOne == Frac(1, 1)

\* x lies in the half-open interval (0, 1]
InUnit(x) == IsNum(x) /\ x.n > 0 /\ x.n <= x.d

(***************************************************************************)
(* The instance (TSPTW, an external collaborator of the core): num_nodes,  *)
(* the complete graph's edge weights, the time windows, distance_max/min.  *)
(***************************************************************************)
Nodes(n) == 0 .. (n - 1)

Pairs(n) == {p \in Nodes(n) \X Nodes(n) : p[1] < p[2]}

\* the weight matrix of a symmetric graph whose self-loops weigh 0
WeightMatrix(n, W) ==
    [i \in Nodes(n) |-> [j \in Nodes(n) |->
        IF i = j THEN 0 ELSE W[<<Min2(i, j), Max2(i, j)>>]]]

WindowSet == {w \in (0 .. MaxT) \X (0 .. MaxT) : w[1] <= w[2]}

\* the depot's window spans the horizon
WindowFamily(n) ==
    {tw \in [Nodes(n) -> WindowSet] : tw[0] = <<0, MaxT>>}

distance_max(n, w) ==
    IF n < 2 THEN 0 ELSE SetMax({w[p[1]][p[2]] : p \in Pairs(n)})

distance_min(n, w) ==
    IF n < 2 THEN 0 ELSE SetMin({w[p[1]][p[2]] : p \in Pairs(n)})

TSPTW(n, w, tw) ==
    [num_nodes |-> n, weight |-> w, time_windows |-> tw,
     distance_max |-> distance_max(n, w), distance_min |-> distance_min(n, w)]

Instances ==
    UNION {{TSPTW(n, WeightMatrix(n, W), tw) :
                W \in [Pairs(n) -> 1 .. MaxW], tw \in WindowFamily(n)} :
           n \in 1 .. MaxN}

(***************************************************************************)
(* __heuristic_benefit_of_visiting_customer_attributes: the standardized   *)
(* matrices c (travel_cost), l (lastest_service_time) and e                *)
(* (earliest_service_time).                                                *)
(***************************************************************************)
\* standardizer = s if (s := distance_max - distance_min) > 0 else 1
StandardizerUnguarded(t) == t.distance_max - t.distance_min

Standardizer(t) ==
    LET s == t.distance_max - t.distance_min IN IF s > 0 THEN s ELSE 1

TravelCost(t) ==
    [i \in Nodes(t.num_nodes) |-> [j \in Nodes(t.num_nodes) |->
        IF i = j THEN FZero
        ELSE FDiv(t.distance_max - t.weight[i][j], Standardizer(t))]]

\* the positive gaps between the other nodes' window bound b (1 = earliest,
\* 2 = latest) and node i's
Gaps(t, i, b) ==
    {g \in {t.time_windows[j][b] - t.time_windows[i][b] :
                j \in Nodes(t.num_nodes) \ {i}} : g > 0}

\* e_j / l_j of node i after the inner loop: the least positive gap, or inf
HasGap(t, i, b) == Gaps(t, i, b) # {}

\* the column value before standardization: e_j if e_j != inf else 0.
RawUrgency(t, i, b) == IF HasGap(t, i, b) THEN SetMin(Gaps(t, i, b)) ELSE 0

GapNodes(t, b) == {i \in Nodes(t.num_nodes) : HasGap(t, i, b)}

\* (x_max - column) / (x_max - x_min) with x_max = -1.0 and x_min = inf when
\* no node has a positive gap: (-1 - 0) / (-1 - inf) = +0.0
Standardize(t, i, b) ==
    IF GapNodes(t, b) = {} THEN FZero
    ELSE LET x_max == SetMax({RawUrgency(t, k, b) : k \in GapNodes(t, b)})
             x_min == SetMin({RawUrgency(t, k, b) : k \in GapNodes(t, b)})
         IN  FDiv(x_max - RawUrgency(t, i, b), x_max - x_min)

Epsilon == Frac(1, 1000)

\* if column > 1.0: column = 1.0; if column == 0.: column = 0.001
Clamp(x) ==
    LET y == IF FLt(FOne, x) THEN FOne ELSE x
    IN  IF FEq(y, FZero) THEN Epsilon ELSE y

\* every row of the matrix holds the same value in column i
Urgency(t, b) ==
    [r \in Nodes(t.num_nodes) |-> [i \in Nodes(t.num_nodes) |->
        Clamp(Standardize(t, i, b))]]

Attributes(t) ==
    [c |-> TravelCost(t), l |-> Urgency(t, 2), e |-> Urgency(t, 1)]

\* the cache of the property: empty until its first read (hasattr is false)
Cached(a, t) == IF a = <<>> THEN <<Attributes(t)>> ELSE a

(***************************************************************************)
(* The pheromone store (Ant, an external collaborator): reset, update.     *)
(***************************************************************************)
\* l_rate, tau_min and tau_max of solve, in thousandths
l_rate == 100

tau_min == 1

tau_max == 999

\* the value resetUniformPheromoneValues writes in every cell, in thousandths
ResetValue == 500

resetUniformPheromoneValues(n) ==
    [i \in Nodes(n) |-> [j \in Nodes(n) |-> ResetValue]]

\* the arcs of a tour; None (the empty sequence) has none
Arcs(tour) == {<<tour[i], tour[i + 1]>> : i \in 1 .. (Len(tour) - 1)}

\* the weight, in thousandths, of each reference tour's deposit: best-so-far
\* alone under bs_update, else iteration-best and best-so-far blended by cf;
\* a None tour contributes nothing and its weight goes to the other
DepositWeights(use_bs, cf, ib, bf) ==
    LET w_ib == IF use_bs THEN 0 ELSE 1000 - cf
        w_bf == IF use_bs THEN 1000 ELSE cf
    IN  [ib |-> IF ib = <<>> THEN 0 ELSE IF bf = <<>> THEN 1000 ELSE w_ib,
         bf |-> IF bf = <<>> THEN 0 ELSE IF ib = <<>> THEN 1000 ELSE w_bf]

ClampTau(x) == Max2(tau_min, Min2(tau_max, x))

\* evaporation, deposit along the reference tours, clamp into [tau_min, tau_max]
updatePheromoneValues(ph, n, use_bs, cf, ib, rb, bf) ==
    LET w == DepositWeights(use_bs, cf, ib, bf)
        dep(i, j) == (IF <<i, j>> \in Arcs(ib) THEN w.ib ELSE 0)
                     + (IF <<i, j>> \in Arcs(bf) THEN w.bf ELSE 0)
    IN  [i \in Nodes(n) |-> [j \in Nodes(n) |->
            ClampTau((ph[i][j] * (1000 - l_rate)) \div 1000
                     + (l_rate * dep(i, j)) \div 1000)]]

\* computeConvergenceFactor returns a value of [0, 1], here in thousandths
CfValues == {990, 995}

(***************************************************************************)
(* ProbabilisticBeamSearch: sampling.                                      *)
(***************************************************************************)
\* __random_define_lambda: lambda_c in [0, 1), lambda_l in [0, 1 - lambda_c),
\* lambda_e = 1 - lambda_c - lambda_l
Lambdas ==
    {[c |-> Frac(a, 2), l |-> Frac(b, 2), e |-> Frac(2 - a - b, 2)] :
        a \in 0 .. 1, b \in 0 .. 1} \ {[c |-> Frac(1, 2), l |-> Frac(1, 2), e |-> FZero]}

\* a denominator every entry of c, l and e can be brought to: c's is the
\* standardizer (below MaxW), l's and e's is a difference of window bounds
\* (at most MaxT) or the 1000 of the floor 0.001
RECURSIVE LcmUpTo(_)
LcmUpTo(k) == IF k <= 1 THEN 1 ELSE LCM(k, LcmUpTo(k - 1))

AttrScale == 1000 * LcmUpTo(MaxT) * LcmUpTo(MaxW)

\* the numerator of x over the denominator scale
Scaled(x, scale) == x.n * (scale \div x.d)

\* __sample_heuristic_benefit_of_visiting_customer: the entry (i, j) of
\* eta = lambda_c * c + lambda_l * l + lambda_e * e, over 2 * AttrScale
Eta(at, lam, i, j) ==
    IF IsNaN(at.c[i][j]) \/ IsNaN(at.l[i][j]) \/ IsNaN(at.e[i][j]) THEN NaN
    ELSE [k |-> "num",
          n |-> Scaled(lam.c, 2) * Scaled(at.c[i][j], AttrScale)
                + Scaled(lam.l, 2) * Scaled(at.l[i][j], AttrScale)
                + Scaled(lam.e, 2) * Scaled(at.e[i][j], AttrScale),
          d |-> 2 * AttrScale]

\* the entry j of tau_eta, over 2000 * AttrScale
TauEtaEntry(ph, at, lam, last, j) ==
    LET eta == Eta(at, lam, last, j)
    IN  IF IsNaN(eta) THEN NaN
        ELSE [k |-> "num", n |-> ph[last][j] * eta.n, d |-> 1000 * eta.d]

\* tau_eta: the row last_customer_added of pheromone * eta, as the sequence of
\* its entries (entry j + 1 is node j's); its numbers share one denominator
RECURSIVE TauEtaUpTo(_, _, _, _, _)
TauEtaUpTo(ph, at, lam, last, k) ==
    IF k = 0 THEN <<>>
    ELSE Append(TauEtaUpTo(ph, at, lam, last, k - 1),
                TauEtaEntry(ph, at, lam, last, k - 1))

TauEta(ph, at, lam, n, last) == TauEtaUpTo(ph, at, lam, last, n)

\* np.argmax: the first NaN if there is one, else the first index of the maximum
Argmax(row, S) ==
    LET nans == {j \in S : IsNaN(row[j + 1])}
        best == {j \in S : \A k \in S : row[k + 1].n <= row[j + 1].n}
    IN  IF nans # {} THEN SetMin(nans) ELSE SetMin(best)

\* sum(tau_eta): NaN as soon as one entry is
RowSum(row, S) ==
    LET RECURSIVE Total(_)
        Total(T) == IF T = {} THEN 0
                    ELSE LET j == SetMin(T) IN row[j + 1].n + Total(T \ {j})
    IN  IF \E j \in S : IsNaN(row[j + 1]) THEN NaN
        ELSE [k |-> "num", n |-> Total(S), d |-> row[SetMin(S) + 1].d]

\* np.random.choice(range(n), p = tau_eta / sum(tau_eta)): an index of positive
\* probability; ValueError (no outcome) when p holds a NaN
Choice(row, S) ==
    LET total == RowSum(row, S)
    IN  IF IsNaN(total) \/ total.n = 0 THEN {}
        ELSE {j \in S : row[j + 1].n > 0}

\* q in [0, 1) and determinism_rate are in tenths
QValues == {1, 5}

\* lines 68-74 of __stochastic_sampling, given tau_eta: the nodes the call
\* can return (none: it raises)
SamplingBranch(row, n, q, det) ==
    IF q <= det THEN {Argmax(row, Nodes(n))} ELSE Choice(row, Nodes(n))

\* __stochastic_sampling
StochasticSampling(ph, at, lam, n, last, q, det) ==
    SamplingBranch(TauEta(ph, at, lam, n, last), n, q, det)

(***************************************************************************)
(* The beam tree.  A BeamNode is [slots, path, mu, rem, kids]: slots tells  *)
(* the node from its siblings (the k-th child added to its parent), path   *)
(* is the ids from the root to the node, mu and rem are the arguments      *)
(* mu_k_bw and number_of_children_not_in_solution of the construction      *)
(* step made on the node, kids is the size of its children.                *)
(***************************************************************************)
BeamRoot(mu, n) ==
    [slots |-> <<>>, path |-> <<0>>, mu |-> mu, rem |-> n - 1, kids |-> 0]

IsPrefix(a, b) == Len(a) <= Len(b) /\ SubSeq(b, 1, Len(a)) = a

Children(tr, x) ==
    {y \in tr : Len(y.slots) = Len(x.slots) + 1 /\ IsPrefix(x.slots, y.slots)}

\* a loop that runs mu_k_bw times whatever number of customers is left
QuotaUncapped(x) == x.mu

\* range(min(mu_k_bw, number_of_children_not_in_solution))
Quota(x) == Max2(0, Min2(x.mu, x.rem))

\* the budget the recursive call hands to a child
ChildBudgetUnfloored(mu) == mu - 1

ChildBudget(mu) == Max2(1, mu - 1)

BeamChild(x, k, j) ==
    [slots |-> Append(x.slots, k), path |-> Append(x.path, j),
     mu |-> ChildBudget(x.mu), rem |-> x.rem - 1, kids |-> 0]

\* beam.children.add(child_node)
AddChild(tr, x, j) ==
    (tr \ {x}) \cup {[x EXCEPT !.kids = x.kids + 1], BeamChild(x, x.kids + 1, j)}

\* the nodes whose construction step has turns of its loop left
Incomplete(tr) == {x \in tr : x.kids < Quota(x)}

\* a comes before b in the depth-first preorder of the recursion
RECURSIVE Before(_, _)
Before(a, b) ==
    IF a = <<>> THEN b # <<>>
    ELSE IF b = <<>> THEN FALSE
    ELSE IF Head(a) # Head(b) THEN Head(a) < Head(b)
    ELSE Before(Tail(a), Tail(b))

\* the node whose construction step is running
Current(tr) ==
    LET inc == Incomplete(tr)
    IN  CHOOSE x \in inc : \A y \in inc : y = x \/ Before(x.slots, y.slots)

Leaves(tr) == {x \in tr : x.kids = 0}

\* BeamNode.extract_solution: the id sequences from the root to every leaf
extract_solution(tr) == {x.path : x \in Leaves(tr)}

\* TSPTW.get_solution_cost: the sum of the weights of the consecutive edges
RECURSIVE get_solution_cost(_, _)
get_solution_cost(t, s) ==
    IF Len(s) < 2 THEN 0
    ELSE t.weight[s[1]][s[2]] + get_solution_cost(t, Tail(s))

\* potential_solutions[np.argmin(potential_solutions_cost)]: the first leaf of
\* least cost in the order extract_solution lists the leaves, which the
\* unordered children leave open
ArgminCost(t, sols) ==
    {s \in sols : \A r \in sols : get_solution_cost(t, s) <= get_solution_cost(t, r)}

(***************************************************************************)
(* beam_construct, one action per step of the construction.                *)
(***************************************************************************)
\* None, an unset attribute, an unbound local
None == <<>>

\* a beam construction writing the pheromone matrix (evaporation)
BeamFrameEvaporating ==
    /\ pheromone' = [i \in DOMAIN pheromone |-> [j \in DOMAIN pheromone[i] |->
                        ClampTau((pheromone[i][j] * (1000 - l_rate)) \div 1000)]]
    /\ UNCHANGED <<tsptw, determinism_rate, mu_k_bw>>

\* what no step of beam_construct writes: the instance, the pheromone
\* matrix (np.array(pheromone) is a copy), the parameters of the search
BeamFrame == UNCHANGED <<tsptw, pheromone, determinism_rate, mu_k_bw>>

\* lines 33-37: a new root, new lambdas
BeamStart ==
    /\ pc = "beam"
    /\ \E lam \in Lambdas : lambda' = lam
    /\ tree' = {BeamRoot(mu_k_bw, tsptw.num_nodes)}
    /\ pc' = "construct"
    /\ solution' = None
    /\ BeamFrame
    /\ UNCHANGED <<attrs, driverVars>>

\* the nodes one sampling call made for node x can return
SampleOutcomes(x, q) ==
    StochasticSampling(pheromone, Cached(attrs, tsptw)[1], lambda,
                       tsptw.num_nodes, x.path[Len(x.path)], q, determinism_rate)

\* tau_eta of the call made for node x
CurrentRow(x) ==
    TauEta(pheromone, Cached(attrs, tsptw)[1], lambda, tsptw.num_nodes,
           x.path[Len(x.path)])

\* lines 49-52: one turn of the loop of the construction step running on
\* Current(tree): a sampled customer becomes a new child
Sample ==
    /\ pc = "construct"
    /\ Incomplete(tree) # {}
    /\ LET x == Current(tree)
       IN  \E q \in QValues : \E j \in SampleOutcomes(x, q) :
               tree' = AddChild(tree, x, j)
    /\ attrs' = Cached(attrs, tsptw)
    /\ BeamFrame
    /\ UNCHANGED <<lambda, pc, solution, driverVars>>

\* line 74 raising ValueError (the probabilities hold a NaN): the
\* construction, and solve with it, ends there
SampleRaises ==
    /\ pc = "construct"
    /\ Incomplete(tree) # {}
    /\ \E q \in QValues : SampleOutcomes(Current(tree), q) = {}
    /\ attrs' = Cached(attrs, tsptw)
    /\ pc' = "error"
    /\ BeamFrame
    /\ UNCHANGED <<lambda, tree, solution, driverVars>>

\* lines 41-43: every construction step has returned; the cheapest leaf,
\* closed by the depot, is the result, and the tree (a local) is dropped
BeamReturn ==
    /\ pc = "construct"
    /\ Incomplete(tree) = {}
    /\ \E s \in ArgminCost(tsptw, extract_solution(tree)) :
           solution' = Append(s, 0)
    /\ tree' = {}
    /\ pc' = "returned"
    /\ BeamFrame
    /\ UNCHANGED <<lambda, attrs, driverVars>>

(***************************************************************************)
(* solve: the trial driver.                                                *)
(***************************************************************************)
\* the parameters solve sets
nb_of_trials == 1

beam_width == 1

mu == 4

\* determinism_rate = 0.2, in tenths
solve_determinism_rate == 2

\* the threshold 0.99 of the convergence factor, in thousandths
cf_threshold == 990

get_score(t, s) == get_solution_cost(t, s)

get_best_soltion(t, solution1, solution2) ==
    IF solution1 = None /\ solution2 = None THEN None
    ELSE IF solution1 = None THEN solution2
    ELSE IF solution2 = None THEN solution1
    ELSE IF get_score(t, solution1) < get_score(t, solution2) THEN solution1
    ELSE solution2

\* lines 60-66, 69-71: a trial starts
TrialStart ==
    /\ pc = "trial"
    /\ best_so_far_solution' = None
    /\ restart_best_solution' = None
    /\ pheromone' = resetUniformPheromoneValues(tsptw.num_nodes)
    /\ bs_update' = FALSE
    /\ restart' = FALSE
    /\ nb_iter_done' = 0
    /\ cf_log' = <<>>
    /\ op_log' = <<>>
    /\ ib_log' = <<>>
    /\ pc' = "loop"
    /\ UNCHANGED <<tsptw, determinism_rate, mu_k_bw, beamVars,
                   iteration_best_solution, best_soltion, trial_nb, run_ib_log,
                   viol>>

\* lines 72-86: an iteration starts and calls beam_construct
IterationStart ==
    /\ pc = "loop"
    /\ nb_iter_done < nb_of_iter
    /\ tsptw.num_nodes >= MaxN => nb_iter_done < MaxLargeIter
    /\ iteration_best_solution' = None
    /\ pc' = "beam"
    /\ UNCHANGED <<tsptw, pheromone, determinism_rate, mu_k_bw, beamVars,
                   best_so_far_solution, restart_best_solution, best_soltion,
                   bs_update, restart, nb_iter_done, trial_nb, cf_log, op_log,
                   ib_log, run_ib_log, viol>>

\* the trial is over: the next one starts, or solve returns best_soltion
\* (lines 132-134; reading it raises UnboundLocalError when no iteration
\* has assigned it)
NextTrial ==
    /\ trial_nb' = trial_nb + 1
    /\ pc' = IF trial_nb + 1 < nb_of_trials THEN "trial"
             ELSE IF best_soltion = None THEN "error"
             ELSE "done"
    /\ UNCHANGED <<tsptw, pheromone, determinism_rate, mu_k_bw, beamVars,
                   best_so_far_solution, restart_best_solution,
                   iteration_best_solution, best_soltion, bs_update, restart,
                   nb_iter_done, cf_log, op_log, ib_log, run_ib_log, viol>>

\* line 72: the loop ends after nb_of_iter iterations
LoopExit ==
    /\ pc = "loop"
    /\ nb_iter_done >= nb_of_iter
    /\ NextTrial

\* lines 74-76: the time limit has passed
TimeLimit ==
    /\ pc = "loop"
    /\ nb_iter_done < nb_of_iter
    /\ NextTrial

\* lines 95-101: restart_best_solution after the iteration
RestartBest(ib) ==
    IF restart THEN None
    ELSE get_best_soltion(tsptw, ib, restart_best_solution)

\* a driver that keeps the latest iteration-best tour
BestSoFarLatest(ib) == ib

\* lines 98, 101: best_so_far_solution after the iteration
BestSoFar(ib) == get_best_soltion(tsptw, best_so_far_solution, ib)

\* line 117: the restart decision
RestartDecisionAlways(cf) == cf > cf_threshold

RestartDecision(cf) == bs_update /\ cf > cf_threshold

\* what both branches of the iteration's end do: lines 86-113, 126-128
IterationEnd(cf, op) ==
    /\ pc = "returned"
    /\ iteration_best_solution' = solution
    /\ restart_best_solution' = RestartBest(solution)
    /\ best_so_far_solution' = BestSoFar(solution)
    /\ best_soltion' = get_best_soltion(tsptw, None, BestSoFar(solution))
    /\ nb_iter_done' = nb_iter_done + 1
    /\ cf_log' = Append(cf_log, cf)
    /\ op_log' = Append(op_log, op)
    /\ ib_log' = Append(ib_log, get_score(tsptw, solution))
    /\ run_ib_log' = Append(run_ib_log, get_score(tsptw, solution))
    /\ solution' = None
    /\ pc' = "loop"
    /\ UNCHANGED <<tsptw, determinism_rate, mu_k_bw, lambda, attrs, tree, trial_nb,
                   viol>>

\* a reset that leaves bs_update as it was
RestartKeepingBsUpdate ==
    \E cf \in CfValues :
        /\ RestartDecision(cf)
        /\ pheromone' = resetUniformPheromoneValues(tsptw.num_nodes)
        /\ bs_update' = bs_update
        /\ restart' = TRUE
        /\ IterationEnd(cf, "reset")

\* lines 117-120: the pheromone values are reset
Restart ==
    \E cf \in CfValues :
        /\ RestartDecision(cf)
        /\ pheromone' = resetUniformPheromoneValues(tsptw.num_nodes)
        /\ bs_update' = FALSE
        /\ restart' = TRUE
        /\ IterationEnd(cf, "reset")

\* lines 121-124: the pheromone values are updated
Update ==
    \E cf \in CfValues :
        /\ ~RestartDecision(cf)
        /\ bs_update' = (bs_update \/ cf > cf_threshold)
        /\ restart' = FALSE
        /\ pheromone' = updatePheromoneValues(pheromone, tsptw.num_nodes,
                            bs_update \/ cf > cf_threshold, cf, solution,
                            RestartBest(solution), BestSoFar(solution))
        /\ IterationEnd(cf, IF bs_update \/ cf > cf_threshold
                            THEN "update_bs" ELSE "update")

(***************************************************************************)
(* get_number_of_violations, one action per turn of its loop.              *)
(***************************************************************************)
\* last_stop after a turn of the loop: line 155 sets it and no line of the
\* loop assigns it
NextOrigin(last_stop, next_stop) == last_stop

\* lines 153-155: the locals before the loop; k is the index of the next stop
ViolationsStart ==
    /\ pc = "violations"
    /\ viol' = [nb_of_violation |-> 0, time_step |-> 0, last_stop |-> 0, k |-> 2]
    /\ pc' = "counting"
    /\ UNCHANGED <<tsptw, pheromone, determinism_rate, mu_k_bw, lambda, attrs,
                   tree, solution, best_so_far_solution, restart_best_solution,
                   iteration_best_solution, best_soltion, bs_update, restart,
                   nb_iter_done, trial_nb, cf_log, op_log, ib_log, run_ib_log>>

\* lines 156-164: one turn of the loop
ViolationsStep ==
    /\ pc = "counting"
    /\ viol.k <= Len(solution)
    /\ LET next_stop == solution[viol.k]
           arrival == viol.time_step + tsptw.weight[viol.last_stop][next_stop]
           time_windows_begening == tsptw.time_windows[next_stop][1]
           time_windows_end == tsptw.time_windows[next_stop][2]
           service == IF arrival < time_windows_begening
                      THEN arrival + (time_windows_begening - arrival)
                      ELSE arrival
       IN  viol' = [nb_of_violation |-> IF service > time_windows_end
                                        THEN viol.nb_of_violation + 1
                                        ELSE viol.nb_of_violation,
                    time_step |-> service,
                    last_stop |-> NextOrigin(viol.last_stop, next_stop),
                    k |-> viol.k + 1]
    /\ UNCHANGED <<tsptw, pheromone, determinism_rate, mu_k_bw, lambda, attrs,
                   tree, pc, solution, best_so_far_solution, restart_best_solution,
                   iteration_best_solution, best_soltion, bs_update, restart,
                   nb_iter_done, trial_nb, cf_log, op_log, ib_log, run_ib_log>>

\* line 166: the loop is over, nb_of_violation is returned
ViolationsReturn ==
    /\ pc = "counting"
    /\ viol.k > Len(solution)
    /\ pc' = "counted"
    /\ UNCHANGED <<tsptw, pheromone, determinism_rate, mu_k_bw, lambda, attrs,
                   tree, solution, best_so_far_solution, restart_best_solution,
                   iteration_best_solution, best_soltion, bs_update, restart,
                   nb_iter_done, trial_nb, cf_log, op_log, ib_log, run_ib_log, viol>>


(***************************************************************************)
(* Specifications.                                                         *)
(***************************************************************************)
\* every node's window is the depot's
OpenWindows(n) == [i \in Nodes(n) |-> <<0, MaxT>>]

\* node i's window opens at min(i (i + 1) / 2, MaxT)
StaggeredWindows(n) ==
    [i \in Nodes(n) |-> <<Min2((i * (i + 1)) \div 2, MaxT), MaxT>>]

BeamInstances ==
    {t \in Instances :
        t.time_windows \in {OpenWindows(t.num_nodes), StaggeredWindows(t.num_nodes)}}

\* the nodes lie on a line, one unit apart
LineWeights(n) ==
    [i \in Nodes(n) |-> [j \in Nodes(n) |-> Min2(Abs(i - j), MaxW)]]

SolveInstances ==
    {t \in BeamInstances :
        t.num_nodes >= 2 /\ t.weight = LineWeights(t.num_nodes)}

\* the tour 0, 1, ..., n - 1, 0
IdentityTour(n) == [i \in 1 .. (n + 1) |-> IF i = n + 1 THEN 0 ELSE i - 1]

\* pheromone matrices a construction can meet: after a reset, after an update
PheromoneFamily(n) ==
    {resetUniformPheromoneValues(n),
     updatePheromoneValues(resetUniformPheromoneValues(n), n, TRUE, 0,
                           IdentityTour(n), None, IdentityTour(n))}

DriverIdle ==
    /\ best_so_far_solution = None
    /\ restart_best_solution = None
    /\ iteration_best_solution = None
    /\ best_soltion = None
    /\ bs_update = FALSE
    /\ restart = FALSE
    /\ nb_iter_done = 0
    /\ trial_nb = 0
    /\ cf_log = <<>>
    /\ op_log = <<>>
    /\ ib_log = <<>>
    /\ run_ib_log = <<>>
    /\ viol = None

BeamIdle ==
    /\ lambda = None
    /\ attrs = None
    /\ tree = {}
    /\ solution = None

\* solve after lines 40-53: the ant and the search are built
Init ==
    /\ tsptw \in SolveInstances
    /\ pheromone = resetUniformPheromoneValues(tsptw.num_nodes)
    /\ determinism_rate = solve_determinism_rate
    /\ mu_k_bw = beam_width * mu
    /\ pc = "trial"
    /\ BeamIdle
    /\ DriverIdle

Next ==
    \/ TrialStart
    \/ IterationStart
    \/ TimeLimit
    \/ LoopExit
    \/ BeamStart
    \/ Sample
    \/ SampleRaises
    \/ BeamReturn
    \/ Restart
    \/ Update

Spec == Init /\ [][Next]_vars

\* one call of beam_construct, on any instance, pheromone matrix and parameters
DetRates == {solve_determinism_rate, 10}

InitBeam ==
    /\ tsptw \in BeamInstances
    /\ pheromone \in PheromoneFamily(tsptw.num_nodes)
    /\ determinism_rate \in DetRates
    /\ mu_k_bw \in 1 .. MaxMu
    /\ pc = "beam"
    /\ BeamIdle
    /\ DriverIdle

NextBeam ==
    \/ BeamStart
    \/ Sample
    \/ SampleRaises
    \/ BeamReturn

SpecBeam == InitBeam /\ [][NextBeam]_vars

\* the first read of the attributes, on any instance
ReadAttributes ==
    /\ pc = "attributes"
    /\ attrs' = Cached(attrs, tsptw)
    /\ pc' = "read"
    /\ UNCHANGED <<tsptw, pheromone, determinism_rate, mu_k_bw, lambda, tree,
                   solution, driverVars>>

InitAttr ==
    /\ tsptw \in Instances
    /\ pheromone = resetUniformPheromoneValues(tsptw.num_nodes)
    /\ determinism_rate = solve_determinism_rate
    /\ mu_k_bw = beam_width * mu
    /\ pc = "attributes"
    /\ BeamIdle
    /\ DriverIdle

NextAttr == ReadAttributes

SpecAttr == InitAttr /\ [][NextAttr]_vars

\* the tours get_number_of_violations is called on: n + 1 stops, the depot
\* first and last
TourFamily(n) ==
    {s \in [1 .. (n + 1) -> Nodes(n)] : s[1] = 0 /\ s[n + 1] = 0}

\* one call of get_number_of_violations, on any instance and tour
InitViolations ==
    /\ tsptw \in Instances
    /\ pheromone = resetUniformPheromoneValues(tsptw.num_nodes)
    /\ determinism_rate = solve_determinism_rate
    /\ mu_k_bw = beam_width * mu
    /\ pc = "violations"
    /\ lambda = None
    /\ attrs = None
    /\ tree = {}
    /\ solution \in TourFamily(tsptw.num_nodes)
    /\ DriverIdle

NextViolations ==
    \/ ViolationsStart
    \/ ViolationsStep
    \/ ViolationsReturn

SpecViolations == InitViolations /\ [][NextViolations]_vars

(***************************************************************************)
(* Properties.                                                             *)
(***************************************************************************)
Range(s) == {s[i] : i \in DOMAIN s}

Last(s) == s[Len(s)]

Front(s) == SubSeq(s, 1, Len(s) - 1)

\* the tours of an instance of n nodes
IsTour(s, n) ==
    /\ Len(s) = n + 1
    /\ s[1] = 0
    /\ s[n + 1] = 0
    /\ {s[i] : i \in 2 .. n} = 1 .. (n - 1)

\* the construction is over and beam_construct is about to read the leaves
Constructed == pc = "construct" /\ Incomplete(tree) = {}

\* beam_construct returns in this step
Returning == pc = "construct" /\ pc' = "returned"

\* C1: the tour beam_construct returns has length n + 1, starts and ends at
\* the depot, and its interior is a permutation of the nodes 1..n-1.
C1_ReturnedTourIsPermutation ==
    pc = "returned" => IsTour(solution, tsptw.num_nodes)

\* C2: every node of the tree is the node a sampling call returned for its
\* parent's partial tour; that node is never on the partial tour already.
C2_SampledNodeIsUnvisited ==
    \A x \in tree : Len(x.path) > 1 => Last(x.path) \notin Range(Front(x.path))

\* the least of a set of sequences of one length, by node-id sequence
LexLeast(S) == CHOOSE s \in S : \A r \in S : r = s \/ Before(s, r)

\* C3: beam_construct returns a leaf of least cost, and among the leaves of
\* least cost the lexicographically least.
C3_ReturnsLexLeastCheapestLeaf ==
    [][Returning =>
          solution' = Append(LexLeast(ArgminCost(tsptw, extract_solution(tree))), 0)]_vars

\* C4: no step of beam_construct changes the pheromone matrix; it changes
\* only when a trial starts (a reset) or at the end of an iteration, after
\* beam_construct has returned and before the next call (a reset or an update).
C4_PheromoneChangesOnlyBetweenConstructions ==
    [][/\ pc \in {"beam", "construct"} => pheromone' = pheromone
       /\ pheromone' # pheromone =>
            \/ pc = "trial" /\ pc' = "loop"
            \/ /\ pc = "returned" /\ pc' = "loop"
               /\ Len(op_log') = Len(op_log) + 1]_vars

\* a construction under way on a pheromone matrix an update has changed
C4_Witness ==
    /\ pc = "construct"
    /\ Cardinality(tree) > 1
    /\ nb_iter_done >= 1
    /\ pheromone # resetUniformPheromoneValues(tsptw.num_nodes)

\* C5 as stated: a reset ends an iteration only when cf was above 0.99 at
\* that iteration's check and at the check of the iteration before it.
C5_ResetNeedsTwoConsecutiveHighChecks ==
    \A k \in DOMAIN op_log :
        op_log[k] = "reset" =>
            /\ cf_log[k] > cf_threshold
            /\ k > 1
            /\ cf_log[k - 1] > cf_threshold

\* C5 as amended: a reset ends an iteration only when cf was above 0.99 at
\* that iteration's check and at the check of some earlier iteration of the
\* trial with no reset from that iteration on; the checks in between may
\* have found cf at or below 0.99.
C5_ResetNeedsEarlierHighCheck ==
    \A k \in DOMAIN op_log :
        op_log[k] = "reset" =>
            /\ cf_log[k] > cf_threshold
            /\ \E j \in 1 .. (k - 1) :
                   /\ cf_log[j] > cf_threshold
                   /\ \A i \in j .. (k - 1) : op_log[i] # "reset"

\* a reset whose preceding check found cf at or below 0.99
C5_Witness ==
    \E k \in DOMAIN op_log :
        op_log[k] = "reset" /\ k > 1 /\ cf_log[k - 1] <= cf_threshold

\* tau_eta of the sampling call that gave node x to its parent's partial tour
RowOfParent(x) ==
    TauEta(pheromone, Cached(attrs, tsptw)[1], lambda, tsptw.num_nodes,
           Last(Front(x.path)))

\* C6: with determinism_rate = 1.0 the sampled node is the first index of the
\* maximum of pheromone * eta over the nodes not on the partial tour.
C6_GreedyPicksBestUnvisited ==
    determinism_rate = 10 =>
        \A x \in tree :
            Len(x.path) > 1 =>
                Last(x.path) = Argmax(RowOfParent(x),
                                      Nodes(tsptw.num_nodes) \ Range(Front(x.path)))

\* C7: every entry of l and e lies in (0, 1], every off-diagonal entry of c
\* lies in (0, 1], and the diagonal of c is 0.
C7_AttributesInUnitInterval ==
    attrs # None =>
        \A i, j \in Nodes(tsptw.num_nodes) :
            /\ InUnit(attrs[1].l[i][j])
            /\ InUnit(attrs[1].e[i][j])
            /\ i # j => InUnit(attrs[1].c[i][j])
            /\ i = j => attrs[1].c[i][j] = FZero

\* C8: when distance_max = distance_min the travel-cost matrix is defined
\* everywhere: (distance_max - weight(i, j)) / 1 off the diagonal, 0 on it.
C8_DegenerateDistanceUsesDivisorOne ==
    (attrs # None /\ tsptw.distance_max = tsptw.distance_min) =>
        \A i, j \in Nodes(tsptw.num_nodes) :
            attrs[1].c[i][j] =
                IF i = j THEN FZero
                ELSE Frac(tsptw.distance_max - tsptw.weight[i][j], 1)

\* the attributes of an instance of three nodes whose edges weigh the same
C8_Witness ==
    /\ attrs # None
    /\ tsptw.num_nodes >= 3
    /\ tsptw.distance_max = tsptw.distance_min

\* C9: whenever a sampling call is made for a partial tour, a node not on
\* the tour remains and the sum of pheromone * heuristic is strictly positive.
C9_SamplingHasCandidatesAndPositiveSum ==
    (pc = "construct" /\ Incomplete(tree) # {}) =>
        LET x == Current(tree)
            total == RowSum(CurrentRow(x), Nodes(tsptw.num_nodes))
        IN  /\ Nodes(tsptw.num_nodes) \ Range(x.path) # {}
            /\ IsNum(total)
            /\ total.n > 0

\* the construction is running in this step
Constructing == pc = "construct" /\ pc' = "construct"

\* the child budget of the construction steps made at depth t
RECURSIVE BudgetAt(_, _)
BudgetAt(m, t) == IF t = 0 THEN m ELSE ChildBudget(BudgetAt(m, t - 1))

\* the most nodes the tree of an instance of n nodes can hold at depth t
RECURSIVE LevelBound(_, _, _)
LevelBound(n, m, t) ==
    IF t = 0 THEN 1
    ELSE LevelBound(n, m, t - 1) * Max2(0, Min2(BudgetAt(m, t - 1), n - t))

RECURSIVE TreeBound(_, _, _)
TreeBound(n, m, t) ==
    IF t < 0 THEN 0 ELSE LevelBound(n, m, t) + TreeBound(n, m, t - 1)

\* the turns of the loops the construction has left at most
StepsLeft(tr) == TreeBound(tsptw.num_nodes, mu_k_bw, tsptw.num_nodes - 1) - Cardinality(tr)

\* C10: the construction terminates (every step of it lowers StepsLeft,
\* which is never negative, and when no step is left there are leaves to
\* extract), and when it has run to its end every leaf of the tree is at
\* depth n - 1: its path holds n nodes.
C10_ConstructionEndsWithFullLeaves ==
    /\ [][Constructing => StepsLeft(tree') < StepsLeft(tree)]_vars
    /\ [](pc = "construct" => StepsLeft(tree) >= 0)
    /\ [](Constructed =>
            /\ extract_solution(tree) # {}
            /\ \A x \in Leaves(tree) : Len(x.path) = tsptw.num_nodes)

\* a finished tree deeper than the child budget of its root
C10_Witness ==
    /\ Constructed
    /\ tsptw.num_nodes >= 3
    /\ mu_k_bw = 1
    /\ \E x \in Leaves(tree) : Len(x.path) = 3

\* the depth of a node of the tree: the root is at depth 0
Depth(x) == Len(x.slots)

\* C11 as stated: the child budget is mu_k_bw at the root and one less at
\* each depth; a node at depth t has at most min(mu_k_bw - t, n - 1 - t)
\* children, and none once either quantity has reached zero.
C11_BudgetDecrementsToZero ==
    \A x \in tree :
        x.kids <= Max2(0, Min2(mu_k_bw - Depth(x), tsptw.num_nodes - 1 - Depth(x)))

\* C11 as amended: the child budget is mu_k_bw at the root and one less at
\* each depth but never less than 1; a node at depth t has at most
\* min(max(1, mu_k_bw - t), n - 1 - t) children, exactly that many when the
\* construction has run to its end, and none only when no customer is left.
C11_BudgetDecrementsToOne ==
    \A x \in tree :
        LET t == Depth(x)
            most == Min2(Max2(1, mu_k_bw - t), tsptw.num_nodes - 1 - t)
        IN  /\ x.mu = Max2(1, mu_k_bw - t)
            /\ x.rem = tsptw.num_nodes - 1 - t
            /\ x.kids <= most
            /\ Constructed => x.kids = most
            /\ (Constructed /\ x.kids = 0) => t = tsptw.num_nodes - 1

\* a finished tree with a child below the depth at which mu_k_bw - t is zero
C11_Witness ==
    /\ Constructed
    /\ \E x \in tree :
           /\ mu_k_bw - Depth(x) <= 0
           /\ tsptw.num_nodes - 1 - Depth(x) > 0
           /\ x.kids = 1

\* C12: after every completed iteration best_so_far_solution is set and its
\* cost is the least cost of the iteration-best tours of the trial so far;
\* its cost never goes up from one iteration to the next, resets included;
\* the tour solve returns has the least cost of all the iteration-best
\* tours of the run.
C12_BestSoFarIsMinimumOfIterationBests ==
    /\ [](nb_iter_done >= 1 =>
            /\ best_so_far_solution # None
            /\ Len(ib_log) = nb_iter_done
            /\ get_score(tsptw, best_so_far_solution) = SetMin(Range(ib_log)))
    /\ [][(best_so_far_solution # None /\ best_so_far_solution' # None) =>
            get_score(tsptw, best_so_far_solution')
                <= get_score(tsptw, best_so_far_solution)]_vars
    /\ [](pc = "done" =>
            /\ best_soltion # None
            /\ get_score(tsptw, best_soltion) = SetMin(Range(run_ib_log)))

\* solve returns, after a reset, a tour cheaper than the last iteration-best
C12_Witness ==
    /\ pc = "done"
    /\ \E k \in DOMAIN op_log : op_log[k] = "reset"
    /\ tsptw.num_nodes >= 3
    /\ Len(run_ib_log) >= 3
    /\ get_score(tsptw, best_soltion) < Last(run_ib_log)

\* the operations on the pheromone matrix an iteration can end with
Resets(k) == op_log[k] = "reset"

UpdatesWithBs(k) == op_log[k] = "update_bs"

\* C13: every completed iteration ends with exactly one of a reset and an
\* update of the pheromone values; a reset leaves bs_update False, so the
\* iteration after a reset ends with an update whatever its convergence
\* factor is (no two resets in a row), and between two resets there is an
\* update made with bs_update = True.
C13_OneOperationPerIterationNoDoubleReset ==
    /\ [](/\ Len(op_log) = nb_iter_done
          /\ \A k \in DOMAIN op_log :
                 /\ op_log[k] \in {"reset", "update", "update_bs"}
                 /\ (Resets(k) /\ k < Len(op_log)) => ~Resets(k + 1)
                 /\ \A j \in 1 .. (k - 1) :
                        (Resets(j) /\ Resets(k)) =>
                            \E i \in (j + 1) .. (k - 1) : UpdatesWithBs(i)
          /\ (op_log # <<>> /\ Resets(Len(op_log))) => ~bs_update)
    /\ [][nb_iter_done' = nb_iter_done + 1 =>
            /\ Len(op_log') = Len(op_log) + 1
            /\ IF Last(op_log') = "reset"
               THEN pheromone' = resetUniformPheromoneValues(tsptw.num_nodes)
               ELSE pheromone' = updatePheromoneValues(pheromone, tsptw.num_nodes,
                                     bs_update', Last(cf_log'),
                                     iteration_best_solution',
                                     restart_best_solution',
                                     best_so_far_solution')]_vars

\* a second reset in a trial, the iteration after the first reset having
\* read a convergence factor above 0.99
C13_Witness ==
    \E j, k \in DOMAIN op_log :
        /\ j < k
        /\ Resets(j)
        /\ Resets(k)
        /\ cf_log[j + 1] > cf_threshold
        /\ UpdatesWithBs(j + 1)

\* the service time at stop k of tour s: the clock starts at 0 at the depot,
\* advances by the weight of the edge from stop k - 1 to stop k, and waits
\* for the window of stop k to open
RECURSIVE ServiceTime(_, _, _)
ServiceTime(t, s, k) ==
    IF k = 1 THEN 0
    ELSE Max2(ServiceTime(t, s, k - 1) + t.weight[s[k - 1]][s[k]],
              t.time_windows[s[k]][1])

\* the positions of tour s served after their window has closed
LatePositions(t, s) ==
    {k \in 2 .. Len(s) : ServiceTime(t, s, k) > t.time_windows[s[k]][2]}

\* C14: get_number_of_violations returns the number of positions k >= 1 of
\* the tour whose service time, on a clock that advances by the weight of
\* each consecutive pair and waits for windows to open, exceeds the window
\* end; the result lies between 0 and len(solution) - 1.
C14_CountsLateStopsAlongTheTour ==
    pc = "counted" =>
        /\ viol.nb_of_violation = Cardinality(LatePositions(tsptw, solution))
        /\ viol.nb_of_violation \in 0 .. (Len(solution) - 1)

====
